---- MODULE Spec2Model ----
(***************************************************************************)
(* A model of packages/windows-redux/package.py: the WixConfig generator   *)
(* that walks the configured groups, builds the installer manifest tree    *)
(* and keeps the registry of archived uuids.                               *)
(*                                                                         *)
(* A path is a sequence of one-character strings, so that os.path.split,   *)
(* os.path.join and the slice of mask_path act on characters as they do in *)
(* the source.  os.path is modelled with the one separator "/" (posixpath; *)
(* ntpath acts the same way on drive-less paths).                          *)
(***************************************************************************)
EXTENDS Integers, Sequences, FiniteSets, TLC

\* ------------------------------------------------------------------ bounds

\* Runs of the generator in one behaviour (a run is __main__: construct, save).
MaxRuns == 2
\* Groups in config['groups'].
MaxGroups == 2
\* The longest path handed to directory() in SpecDir, and the calls made there.
MaxPathLen == 3
MaxCalls == 3

\* ------------------------------------------------------- characters, paths

SEP == "/"

\* The characters of the model in ASCII order.
Alphabet ==
  << "/", "D", "M", "P", "\\", "a", "b", "d", "e", "f", "g", "h", "i", "l",
     "m", "n", "o", "r", "s", "t", "u", "w" >>

Ord(c) == CHOOSE i \in 1..Len(Alphabet) : Alphabet[i] = c

\* s[i:] and s[:i] of Python (0-based i, 0 <= i).
From(s, i) == IF i >= Len(s) THEN << >> ELSE SubSeq(s, i + 1, Len(s))
UpTo(s, i) == IF i <= 0 THEN << >> ELSE SubSeq(s, 1, IF i > Len(s) THEN Len(s) ELSE i)

\* str comparison of Python: lexicographic on code points.
RECURSIVE StrLess(_, _)
StrLess(a, b) ==
  IF b = << >> THEN FALSE
  ELSE IF a = << >> THEN TRUE
  ELSE IF Ord(a[1]) # Ord(b[1]) THEN Ord(a[1]) < Ord(b[1])
  ELSE StrLess(Tail(a), Tail(b))

\* p.rfind('/') + 1
RFindSep(p) ==
  IF \E i \in 1..Len(p) : p[i] = SEP
  THEN CHOOSE i \in 1..Len(p) : p[i] = SEP /\ \A j \in (i + 1)..Len(p) : p[j] # SEP
  ELSE 0

RECURSIVE RStripSep(_)
RStripSep(s) ==
  IF s # << >> /\ s[Len(s)] = SEP THEN RStripSep(SubSeq(s, 1, Len(s) - 1)) ELSE s

\* os.path.split: <<head, tail>>, the head without its trailing separators
\* unless it is separators only.
PathSplit(p) ==
  LET i == RFindSep(p)
      head == UpTo(p, i)
      tail == From(p, i)
  IN  << IF head # << >> /\ (\E k \in 1..Len(head) : head[k] # SEP)
         THEN RStripSep(head) ELSE head,
         tail >>

\* os.path.join of two parts.
PathJoin(a, b) ==
  IF b # << >> /\ b[1] = SEP THEN b
  ELSE IF a = << >> \/ a[Len(a)] = SEP THEN a \o b
  ELSE a \o << SEP >> \o b

\* The non-empty segments of a path, and the normal absolute form under which
\* the file system knows it (the working directory is "/").
RECURSIVE Segments(_)
Segments(p) ==
  IF p = << >> THEN << >>
  ELSE LET parts == PathSplit(p)
       IN  IF parts[1] = p THEN << >>
           ELSE Segments(parts[1]) \o (IF parts[2] = << >> THEN << >> ELSE << parts[2] >>)

RECURSIVE JoinSegments(_)
JoinSegments(segs) ==
  IF segs = << >> THEN << >>
  ELSE IF Len(segs) = 1 THEN segs[1]
  ELSE segs[1] \o << SEP >> \o JoinSegments(Tail(segs))

AbsPath(p) == << SEP >> \o JoinSegments(Segments(p))

\* ------------------------------------------------------------- file system

\* The directories of the file system with their listings (os.listdir order).
FSDirs ==
  ( << "/", "s", "/", "a" >>           :> << << "f" >>, << "l" >> >> ) @@
  ( << "/", "s", "/", "a", "/", "l" >> :> << << "h" >> >> ) @@
  ( << "/", "t", "/", "a" >>           :> << << "f" >> >> ) @@
  ( << "/", "b" >>                     :> << << "g" >> >> )

IsDir(p) == AbsPath(p) \in DOMAIN FSDirs

\* ------------------------------------------------------------ inputs

\* Exclusion expressions are sequences of tokens: a literal character, ".*" or
\* the end anchor "$".
ExprEndsH == << ".*", "h", "$" >>
ExprLitF == << "f" >>

\* Shortcut descriptors (the attributes a caller supplies).
ShortcutGui == [Id |-> << "MailpileGUIMenuShortcut" >>, Name |-> << "Mailpile GUI" >>]

\* The values config['groups'] draws its groups from: roots of every shape
\* (a parent directory, the same last segment under another parent, the file
\* system root as parent, a bare relative name, a trailing separator).
GroupChoices ==
  { [root |-> << "/", "s", "/", "a" >>, ignore |-> << >>,
     shortcuts |-> (<< "a", "/", "f" >> :> ShortcutGui)],
    [root |-> << "/", "s", "/", "a" >>, ignore |-> << ExprLitF, ExprEndsH >>,
     shortcuts |-> << >>],
    [root |-> << "/", "t", "/", "a" >>, ignore |-> << >>, shortcuts |-> << >>],
    [root |-> << "/", "b" >>, ignore |-> << >>,
     shortcuts |-> (<< "b", "/", "g" >> :> ShortcutGui)],
    [root |-> << "b" >>, ignore |-> << >>, shortcuts |-> << >>],
    [root |-> << "/", "s", "/", "a", "/" >>, ignore |-> << >>, shortcuts |-> << >>] }

RECURSIVE SeqsUpTo(_, _)
SeqsUpTo(S, n) ==
  IF n = 0 THEN { << >> }
  ELSE LET shorter == SeqsUpTo(S, n - 1)
       IN  shorter \cup { Append(q, x) : q \in shorter, x \in S }

\* config['groups']: at least one group, no directory the root of two groups.
Configs ==
  { c \in SeqsUpTo(GroupChoices, MaxGroups) \ { << >> } :
      \A i, j \in 1..Len(c) : i # j => AbsPath(c[i].root) # AbsPath(c[j].root) }

\* Directories the scan may find unreadable.
UnreadableChoices ==
  { {}, { << "/", "s", "/", "a", "/", "l" >> }, { << "/", "b" >> } }

\* The key of the menu component in the registry: '\\windows\\ProgramMenuDir'.
MenuKey ==
  << "\\", "w", "i", "n", "d", "o", "w", "s", "\\", "P", "r", "o", "g", "r", "a", "m",
     "M", "e", "n", "u", "D", "i", "r" >>

\* A registry archived by an earlier version of the product.
ArchivedGuid == << "X" >>
ArchivedRegistries ==
  { << >>, (<< "a", "/", "f" >> :> ArchivedGuid) }

\* ------------------------------------------------------------- state

VARIABLES
  config,          \* config['groups'] in the order .items() yields the groups
  unreadable,      \* file system: the directories os.listdir fails on
  regfile,         \* file system: mailpile.uuid.json
  wxsfile,         \* file system: mailpile.wxs
  entropy,         \* random draws made so far by uuid.uuid4
  run,             \* the number of this run of __main__
  pc,              \* where the run is
  err,             \* the exception that ended the run, "" when none
  uuids,           \* self.uuids
  dirs,            \* self.dirs: path -> Directory element
  logical,         \* self.logical: Id -> Directory element
  nodes,           \* the element tree under self.root, in creation order
  group,           \* the index in config of the group scan_group works on
  todo,            \* what os.walk has yet to yield to the scan: <<parent, filename>>
  wrote,           \* the outputs this run has written in full
  prev,            \* history: how the previous run ended
  requested        \* history: the calls of directory(), <<path, element returned>>

vars ==
  << config, unreadable, regfile, wxsfile, entropy, run, pc, err, uuids, dirs,
     logical, nodes, group, todo, wrote, prev, requested >>

\* --------------------------------------------------------------- re.match

\* re.match(expr, path): the expression matches at the start of path.
RECURSIVE ReMatch(_, _)
ReMatch(expr, path) ==
  IF expr = << >> THEN TRUE
  ELSE IF Head(expr) = "$" THEN path = << >> /\ ReMatch(Tail(expr), path)
  ELSE IF Head(expr) = ".*"
       THEN \E k \in 0..Len(path) : ReMatch(Tail(expr), From(path, k))
  ELSE path # << >> /\ Head(path) = Head(expr) /\ ReMatch(Tail(expr), Tail(path))

\* ignore_path of scan_group: the first expression only (a faulty variant).
IgnorePathFirstOnly(ignore, path) ==
  ignore # << >> /\ ReMatch(ignore[1], path)

IgnorePath(ignore, path) ==
  \E i \in 1..Len(ignore) : ReMatch(ignore[i], path)

\* ---------------------------------------------------------------- os.walk

RECURSIVE Concat(_)
Concat(seqs) == IF seqs = << >> THEN << >> ELSE Head(seqs) \o Concat(Tail(seqs))

\* os.walk(top), top down, with no onerror handler: a directory that cannot be
\* listed yields nothing and is passed over.
RECURSIVE Walk(_)
Walk(top) ==
  IF ~IsDir(top) \/ AbsPath(top) \in unreadable THEN << >>
  ELSE LET names == FSDirs[AbsPath(top)]
           IsSub(name) == IsDir(PathJoin(top, name))
           IsFile(name) == ~IsDir(PathJoin(top, name))
           subdirs == SelectSeq(names, IsSub)
           files == SelectSeq(names, IsFile)
       IN  << [parent |-> top, files |-> files] >>
           \o Concat([i \in 1..Len(subdirs) |-> Walk(PathJoin(top, subdirs[i]))])

\* The two loops of scan_group over os.walk(root), flattened.
WalkFiles(root) ==
  LET w == Walk(root)
  IN  Concat([i \in 1..Len(w) |->
                [j \in 1..Len(w[i].files) |->
                   [parent |-> w[i].parent, filename |-> w[i].files[j]]]])

\* ------------------------------------------------------- registry, json

\* The keys of a dict in sorted order (sort_keys = True).
RECURSIVE SortedKeys(_)
SortedKeys(keys) ==
  IF keys = {} THEN << >>
  ELSE LET least == CHOOSE k \in keys : \A o \in keys \ {k} : StrLess(k, o)
       IN  << least >> \o SortedKeys(keys \ {least})

\* json.dump without sort_keys (a faulty variant): the members in the order of the
\* dict of this run, which is not the sorted one.
RECURSIVE DictOrderKeys(_)
DictOrderKeys(keys) ==
  IF keys = {} THEN << >>
  ELSE LET pick == IF run % 2 = 0
                   THEN CHOOSE k \in keys : \A o \in keys \ {k} : StrLess(k, o)
                   ELSE CHOOSE k \in keys : \A o \in keys \ {k} : StrLess(o, k)
       IN  << pick >> \o DictOrderKeys(keys \ {pick})
JsonDumpUnsorted(d) ==
  LET keys == DictOrderKeys(DOMAIN d)
  IN  [i \in 1..Len(keys) |-> << keys[i], d[keys[i]] >>]

\* json.dump(self.uuids, handle, sort_keys = True): the members of the object
\* as <<key, value>>, in key order.
JsonDump(d) ==
  LET keys == SortedKeys(DOMAIN d)
  IN  [i \in 1..Len(keys) |-> << keys[i], d[keys[i]] >>]

\* json.load(handle): the dict of the members, a later member winning.
JsonLoad(text) ==
  [k \in { text[i][1] : i \in 1..Len(text) } |->
     text[CHOOSE i \in 1..Len(text) :
            text[i][1] = k /\ \A j \in (i + 1)..Len(text) : text[j][1] # k][2]]

\* str(uuid.uuid4()): a value no earlier draw gave.
Uuid4(drawn) == << "uuid4", drawn >>

\* uuid() that mints whether or not the path is a key (a faulty variant).
UuidAlwaysMint(us, drawn, path) ==
  [uuids |-> (path :> Uuid4(drawn)) @@ us, guid |-> Uuid4(drawn), entropy |-> drawn + 1]

\* WixConfig.uuid: the stored value, or a new one stored under path.
Uuid(us, drawn, path) ==
  IF path \in DOMAIN us
  THEN [uuids |-> us, guid |-> us[path], entropy |-> drawn]
  ELSE [uuids |-> (path :> Uuid4(drawn)) @@ us, guid |-> Uuid4(drawn),
        entropy |-> drawn + 1]

\* ------------------------------------------------------------ elements

\* xml_append: a new last child of element parent (an index into ns; the new
\* element is the last of the result).
XmlAppend(ns, parent, tag, attrs) ==
  Append(ns, [tag |-> tag, parent |-> parent, attrs |-> attrs])

\* hashlib.sha1(name).hexdigest(), taken as injective.
Sha1Hex(name) == [sha1 |-> name]

\* WixConfig.id_str: use + '_' + digest.
IdStr(use, name) == << use, "_", Sha1Hex(name) >>

DirectoryId(path) == IdStr("Directory", path)
ComponentId(name) == IdStr("Component", name)
FileId(name) == IdStr("File", name)

\* WixConfig.mask_path: path[len(mask) + 1:]
MaskPath(mask, path) == From(path, Len(mask) + 1)

\* ------------------------------------------------------------ directory

\* The while loop of directory(): up from path to the nearest cached ancestor,
\* or to the MailpileClient element when split() no longer shortens the path.
RECURSIVE DirectoryFind(_, _, _, _)
DirectoryFind(ds, lg, path, stack) ==
  IF path \in DOMAIN ds
  THEN [parent |-> ds[path], path |-> path, stack |-> stack]
  ELSE LET parts == PathSplit(path)
       IN  IF parts[1] = path
           THEN [parent |-> lg["MailpileClient"], path |-> path, stack |-> stack]
           ELSE DirectoryFind(ds, lg, parts[1], Append(stack, parts[2]))

\* The for loop of directory(): one Directory element per part of the stack,
\* last pushed first, each cached under the joined path.
RECURSIVE DirectoryMake(_, _, _, _, _)
DirectoryMake(ns, ds, path, parent, stack) ==
  IF stack = << >> THEN [nodes |-> ns, dirs |-> ds, node |-> parent]
  ELSE LET part == stack[Len(stack)]
           joined == PathJoin(path, part)
           ns2 == XmlAppend(ns, parent, "Directory",
                            [Id |-> DirectoryId(joined), Name |-> part])
       IN  DirectoryMake(ns2, (joined :> Len(ns2)) @@ ds, joined, Len(ns2),
                         SubSeq(stack, 1, Len(stack) - 1))

\* WixConfig.directory: [nodes, dirs] after the call and the element returned.
Directory(ns, ds, lg, path) ==
  LET found == DirectoryFind(ds, lg, path, << >>)
  IN  DirectoryMake(ns, ds, found.path, found.parent, found.stack)

\* ------------------------------------------------------------- skeleton

\* logical_root and logical_node: [nodes, logical] after the call.
LogicalRoot(ns, lg, product, attrs) ==
  LET ns2 == XmlAppend(ns, product, "Directory", attrs)
  IN  [nodes |-> ns2, logical |-> (attrs.Id[1] :> Len(ns2)) @@ lg]

LogicalNode(ns, lg, parent_id, attrs) ==
  LET ns2 == XmlAppend(ns, lg[parent_id], "Directory", attrs)
  IN  [nodes |-> ns2, logical |-> (attrs.Id[1] :> Len(ns2)) @@ lg]

\* self.product, self.feature and self.menu_component in the tree.
ProductEl(ns) == CHOOSE i \in 1..Len(ns) : ns[i].tag = "Product"
FeatureEl(ns) == CHOOSE i \in 1..Len(ns) : ns[i].tag = "Feature"
MenuComponentEl(ns) ==
  CHOOSE i \in 1..Len(ns) :
    ns[i].tag = "Component" /\ ns[i].attrs.Id = << "ProgramMenuDir" >>

\* __init__ up to the loop over the groups: the fixed elements, given the Guid
\* of the menu component.
Skeleton(menu_guid) ==
  LET n1 == << [tag |-> "Wix", parent |-> 0,
                attrs |-> [xmlns |-> << "http://schemas.microsoft.com/wix/2006/wi" >>]] >>
      n2 == XmlAppend(n1, Len(n1), "Product",
                      [Id |-> << "product_id" >>, UpgradeCode |-> << "product_code" >>])
      product == Len(n2)
      n3 == XmlAppend(n2, product, "Package", [Id |-> << "*" >>])
      n4 == XmlAppend(n3, product, "Media", [Id |-> << "1" >>])
      n5 == XmlAppend(n4, product, "Property", [Id |-> << "DiskPrompt" >>])
      r6 == LogicalRoot(n5, << >>, product,
                        [Id |-> << "TARGETDIR" >>, Name |-> << "SourceDir" >>])
      n7 == XmlAppend(r6.nodes, product, "Feature", [Id |-> << "Complete" >>])
      r8 == LogicalNode(n7, r6.logical, "TARGETDIR",
                        [Id |-> << "ProgramFilesFolder" >>, Name |-> << "ProgramFiles" >>])
      r9 == LogicalNode(r8.nodes, r8.logical, "ProgramFilesFolder",
                        [Id |-> << "MailpileEHF" >>, Name |-> << "Mailpile ehf" >>])
      r10 == LogicalNode(r9.nodes, r9.logical, "MailpileEHF",
                         [Id |-> << "MailpileClient" >>, Name |-> << "Mailpile Client" >>])
      r11 == LogicalNode(r10.nodes, r10.logical, "TARGETDIR",
                         [Id |-> << "ProgramMenuFolder" >>])
      r12 == LogicalNode(r11.nodes, r11.logical, "ProgramMenuFolder",
                         [Id |-> << "ProgramMenuDir" >>, Name |-> << "Mailpile" >>])
      n13 == XmlAppend(r12.nodes, r12.logical["ProgramMenuDir"], "Component",
                       [Id |-> << "ProgramMenuDir" >>, Guid |-> menu_guid])
      menu == Len(n13)
      n14 == XmlAppend(n13, menu, "RegistryValue", [Root |-> << "HKCU" >>])
      n15 == XmlAppend(n14, menu, "RemoveFolder", [Id |-> << "ProgramMenuDir" >>])
      n16 == XmlAppend(n15, FeatureEl(n15), "ComponentRef",
                       [Id |-> << "ProgramMenuDir" >>])
  IN  [nodes |-> n16, logical |-> r12.logical]

\* ------------------------------------------------------------------ save

\* ET.tostring and toprettyxml: the elements in document order, each with its
\* depth of indentation.
RECURSIVE Render(_, _, _), RenderChildren(_, _, _, _)
Render(ns, i, depth) ==
  << [indent |-> depth, tag |-> ns[i].tag, attrs |-> ns[i].attrs] >>
  \o RenderChildren(ns, i, depth + 1, i + 1)
RenderChildren(ns, i, depth, j) ==
  IF j > Len(ns) THEN << >>
  ELSE (IF ns[j].parent = i THEN Render(ns, j, depth) ELSE << >>)
       \o RenderChildren(ns, i, depth, j + 1)

Pretty(ns) == Render(ns, 1, 0)

\* ------------------------------------------------------------ scan_group

\* The try block of scan_group that attaches a Shortcut to every file, whether
\* or not the path is a key of shortcuts (a faulty variant).
ShortcutAlways(ns, menu, shortcuts, path) ==
  XmlAppend(ns, menu, "Shortcut",
            ("Target" :> << "[#", FileId(path), "]" >>)
              @@ (IF path \in DOMAIN shortcuts THEN shortcuts[path] ELSE << >>))

\* The try block of scan_group: a Shortcut under the menu component when path
\* is a key of shortcuts, nothing on KeyError.
Shortcut(ns, menu, shortcuts, path) ==
  IF path \in DOMAIN shortcuts
  THEN XmlAppend(ns, menu, "Shortcut",
                 ("Target" :> << "[#", FileId(path), "]" >>) @@ shortcuts[path])
  ELSE ns

\* What the running iteration of scan_group works on.
CurGroup == config[group]
CurMask == PathSplit(CurGroup.root)[1]
CurLocalPath == PathJoin(Head(todo).parent, Head(todo).filename)
CurPath == MaskPath(CurMask, CurLocalPath)
CurParentPath == MaskPath(CurMask, Head(todo).parent)

\* ------------------------------------------------------------- the runs

Missing == [state |-> "missing", text |-> << >>]
Written(text) == [state |-> "written", text |-> text]
Truncated == [state |-> "truncated", text |-> << >>]

NoObject ==
  /\ uuids = << >>
  /\ dirs = << >>
  /\ logical = << >>
  /\ nodes = << >>
  /\ group = 0
  /\ todo = << >>
  /\ wrote = {}
  /\ err = ""

Init ==
  /\ run = 1
  /\ config \in Configs
  /\ unreadable \in UnreadableChoices
  /\ regfile \in { Missing } \cup { Written(JsonDump(r)) : r \in ArchivedRegistries }
  /\ wxsfile = Missing
  /\ entropy = 0
  /\ pc = "boot"
  /\ NoObject
  /\ prev = [pc |-> "none", uuids |-> << >>, regfile |-> regfile, wxsfile |-> wxsfile]
  /\ requested = << >>

\* __init__, lines 70-79: open and json.load of the registry; a missing file
\* raises IOError out of the constructor.
LoadRegistry ==
  /\ pc = "boot"
  /\ IF regfile.state = "written"
     THEN /\ uuids' = JsonLoad(regfile.text)
          /\ pc' = "skeleton"
          /\ err' = ""
     ELSE /\ uuids' = uuids
          /\ pc' = "aborted"
          /\ err' = "IOError"
  /\ UNCHANGED << config, unreadable, regfile, wxsfile, entropy, run, dirs, logical,
                  nodes, group, todo, wrote, prev, requested >>

\* __init__, lines 81-165: the fixed elements.
BuildSkeleton ==
  /\ pc = "skeleton"
  /\ LET u == Uuid(uuids, entropy, MenuKey)
         sk == Skeleton(u.guid)
     IN  /\ uuids' = u.uuids
         /\ entropy' = u.entropy
         /\ nodes' = sk.nodes
         /\ logical' = sk.logical
  /\ group' = 1
  /\ pc' = "groups"
  /\ UNCHANGED << config, unreadable, regfile, wxsfile, run, err, dirs, todo, wrote,
                  prev, requested >>

\* scan_group, lines 278-286: the walk of the group's root starts.
EnterGroup ==
  /\ pc = "groups"
  /\ group <= Len(config)
  /\ todo' = WalkFiles(config[group].root)
  /\ pc' = "scan"
  /\ UNCHANGED << config, unreadable, regfile, wxsfile, entropy, run, err, uuids, dirs,
                  logical, nodes, group, wrote, prev, requested >>

\* scan_group, lines 287-320: one file of the walk.
ScanFile ==
  /\ pc = "scan"
  /\ todo # << >>
  /\ IF IgnorePath(CurGroup.ignore, CurPath)
     THEN UNCHANGED << uuids, entropy, dirs, nodes >>
     ELSE LET d == Directory(nodes, dirs, logical, CurParentPath)
              component_id == ComponentId(CurPath)
              u == Uuid(uuids, entropy, CurPath)
              n1 == XmlAppend(d.nodes, d.node, "Component",
                              [Id |-> component_id, Guid |-> u.guid])
              n2 == XmlAppend(n1, Len(n1), "File",
                              [Id |-> FileId(CurPath), Name |-> Head(todo).filename,
                               DiskId |-> << "1" >>, Source |-> CurLocalPath,
                               KeyPath |-> << "yes" >>])
              n3 == Shortcut(n2, MenuComponentEl(n2), CurGroup.shortcuts, CurPath)
              n4 == XmlAppend(n3, FeatureEl(n3), "ComponentRef", [Id |-> component_id])
          IN  /\ uuids' = u.uuids
              /\ entropy' = u.entropy
              /\ dirs' = d.dirs
              /\ nodes' = n4
  /\ todo' = Tail(todo)
  /\ UNCHANGED << config, unreadable, regfile, wxsfile, run, pc, err, logical, group,
                  wrote, prev, requested >>

\* The walk of the group is over: the loop of __init__ (line 167) goes on.
LeaveGroup ==
  /\ pc = "scan"
  /\ todo = << >>
  /\ group' = group + 1
  /\ pc' = "groups"
  /\ UNCHANGED << config, unreadable, regfile, wxsfile, entropy, run, err, uuids, dirs,
                  logical, nodes, todo, wrote, prev, requested >>

\* The constructor returns and __main__ calls save (line 394).
Constructed ==
  /\ pc = "groups"
  /\ group > Len(config)
  /\ pc' = "save_uuids"
  /\ UNCHANGED << config, unreadable, regfile, wxsfile, entropy, run, err, uuids, dirs,
                  logical, nodes, group, todo, wrote, prev, requested >>

\* save, lines 324-325: the registry is written in full.
SaveUuids ==
  /\ pc = "save_uuids"
  /\ regfile' = Written(JsonDump(uuids))
  /\ wrote' = wrote \cup { "uuid.json" }
  /\ pc' = "save_wxs"
  /\ UNCHANGED << config, unreadable, wxsfile, entropy, run, err, uuids, dirs, logical,
                  nodes, group, todo, prev, requested >>

\* save, line 324: open() of the registry for writing raises.
SaveUuidsFails ==
  /\ pc = "save_uuids"
  /\ pc' = "aborted"
  /\ err' = "IOError"
  /\ UNCHANGED << config, unreadable, regfile, wxsfile, entropy, run, uuids, dirs,
                  logical, nodes, group, todo, wrote, prev, requested >>

\* save, lines 327-332: the manifest is written in full.
SaveWxs ==
  /\ pc = "save_wxs"
  /\ wxsfile' = Written(Pretty(nodes))
  /\ wrote' = wrote \cup { "wxs" }
  /\ pc' = "done"
  /\ UNCHANGED << config, unreadable, regfile, entropy, run, err, uuids, dirs, logical,
                  nodes, group, todo, prev, requested >>

\* save, lines 330-332: the manifest is opened for writing, and encode() or
\* write() raises.
SaveWxsFails ==
  /\ pc = "save_wxs"
  /\ wxsfile' = Truncated
  /\ pc' = "aborted"
  /\ err' = "UnicodeDecodeError"
  /\ UNCHANGED << config, unreadable, regfile, entropy, run, uuids, dirs, logical,
                  nodes, group, todo, wrote, prev, requested >>

\* The process has ended; the generator is run again on the same file system.
NextRun ==
  /\ pc \in { "done", "aborted" }
  /\ run < MaxRuns
  /\ run' = run + 1
  /\ prev' = [pc |-> pc, uuids |-> uuids, regfile |-> regfile, wxsfile |-> wxsfile]
  /\ pc' = "boot"
  /\ uuids' = << >>
  /\ dirs' = << >>
  /\ logical' = << >>
  /\ nodes' = << >>
  /\ group' = 0
  /\ todo' = << >>
  /\ wrote' = {}
  /\ err' = ""
  /\ UNCHANGED << config, unreadable, regfile, wxsfile, entropy, requested >>

Next ==
  \/ LoadRegistry
  \/ BuildSkeleton
  \/ EnterGroup
  \/ ScanFile
  \/ LeaveGroup
  \/ Constructed
  \/ SaveUuids
  \/ SaveUuidsFails
  \/ SaveWxs
  \/ SaveWxsFails
  \/ NextRun

Spec == Init /\ [][Next]_vars

\* --------------------------------------------- directory() called at will

DirChars == { "/", "a" }
DirPaths == SeqsUpTo(DirChars, MaxPathLen)

\* A constructed WixConfig with no groups.
InitDir ==
  /\ run = 1
  /\ config = << >>
  /\ unreadable = {}
  /\ regfile = Written(<< >>)
  /\ wxsfile = Missing
  /\ pc = "constructed"
  /\ err = ""
  /\ LET u == Uuid(<< >>, 0, MenuKey)
         sk == Skeleton(u.guid)
     IN  /\ uuids = u.uuids
         /\ entropy = u.entropy
         /\ nodes = sk.nodes
         /\ logical = sk.logical
  /\ dirs = << >>
  /\ group = 1
  /\ todo = << >>
  /\ wrote = {}
  /\ prev = [pc |-> "none", uuids |-> << >>, regfile |-> regfile, wxsfile |-> wxsfile]
  /\ requested = << >>

\* A call of directory(path).
DirectoryCall(path) ==
  /\ pc = "constructed"
  /\ Len(requested) < MaxCalls
  /\ LET d == Directory(nodes, dirs, logical, path)
     IN  /\ nodes' = d.nodes
         /\ dirs' = d.dirs
         /\ requested' = Append(requested, << path, d.node >>)
  /\ UNCHANGED << config, unreadable, regfile, wxsfile, entropy, run, pc, err, uuids,
                  logical, group, todo, wrote, prev >>

NextDir == \E path \in DirPaths : DirectoryCall(path)

SpecDir == InitDir /\ [][NextDir]_vars

\* ------------------------------------------------------------- claims

ElementsOf(ns, tag) == { i \in 1..Len(ns) : ns[i].tag = tag }
ScannedComponents(ns) ==
  { i \in ElementsOf(ns, "Component") : ns[i].attrs.Id # << "ProgramMenuDir" >> }
AddedElements(tag) == ElementsOf(nodes', tag) \ ElementsOf(nodes, tag)
KeepsElements == Len(nodes') >= Len(nodes) /\ SubSeq(nodes', 1, Len(nodes)) = nodes

\* The files os.walk yields for a group, and whether the scan retains one.
WalkedFiles(g) ==
  { WalkFiles(config[g].root)[k] : k \in 1..Len(WalkFiles(config[g].root)) }
Retained(g, f) ==
  ~ \E i \in 1..Len(config[g].ignore) :
      ReMatch(config[g].ignore[i],
              MaskPath(PathSplit(config[g].root)[1], PathJoin(f.parent, f.filename)))
RetainedFiles ==
  UNION { { << g, f >> : f \in { w \in WalkedFiles(g) : Retained(g, w) } } :
          g \in 1..Len(config) }

\* C1 (archival invariant of the registry): while a run goes on no entry of the
\* registry is removed or altered, entries are only added; the Guid a scanned
\* Component carries is the registry's entry for its path; and after a run
\* that ended with save(), every entry it held is there, unchanged, in whatever
\* the next run has loaded.
RegistryKeepsEntries ==
  pc' # "boot" =>
    \A p \in DOMAIN uuids : p \in DOMAIN uuids' /\ uuids'[p] = uuids[p]
RegistryArchived ==
  /\ \A i \in ScannedComponents(nodes) :
       \A p \in DOMAIN uuids :
         nodes[i].attrs.Id = ComponentId(p) => nodes[i].attrs.Guid = uuids[p]
  /\ (prev.pc = "done" /\ pc # "boot") =>
       \A p \in DOMAIN prev.uuids : p \in DOMAIN uuids /\ uuids[p] = prev.uuids[p]
ArchivalInvariant == []RegistryArchived /\ [][RegistryKeepsEntries]_vars

\* C1's case: a second run, after a saved one, that loaded an archived entry
\* and the entries the first run minted, and has called uuid() for them again.
ArchivalWitness ==
  /\ run = 2
  /\ prev.pc = "done"
  /\ pc = "done"
  /\ << "a", "/", "f" >> \in DOMAIN uuids
  /\ uuids[<< "a", "/", "f" >>] = ArchivedGuid
  /\ Cardinality(DOMAIN uuids) >= 3
  /\ Cardinality(ScannedComponents(nodes)) >= 2

\* C2 (exclusion correctness): the iteration of scan_group for a file whose
\* masked path matches one of the group's expressions creates no element and no
\* registry entry; for any other file it creates exactly one Component, one
\* File under it that names the file as its Source, one ComponentRef under the
\* Feature with the Component's Id, and leaves the registry with an entry for
\* the masked path and no other new key.  A finished scan holds one Component,
\* File and ComponentRef per retained file and none for an excluded one.
ScanOfOneFile ==
  (pc = "scan" /\ todo # << >>) =>
    IF \E i \in 1..Len(CurGroup.ignore) : ReMatch(CurGroup.ignore[i], CurPath)
    THEN nodes' = nodes /\ uuids' = uuids /\ dirs' = dirs
    ELSE /\ KeepsElements
         /\ Cardinality(AddedElements("Component")) = 1
         /\ Cardinality(AddedElements("File")) = 1
         /\ Cardinality(AddedElements("ComponentRef")) = 1
         /\ \A c \in AddedElements("Component"), f \in AddedElements("File"),
               r \in AddedElements("ComponentRef") :
              /\ nodes'[f].parent = c
              /\ nodes'[f].attrs.Source = CurLocalPath
              /\ nodes'[c].attrs.Id = ComponentId(CurPath)
              /\ nodes'[r].attrs.Id = nodes'[c].attrs.Id
              /\ nodes'[r].parent = FeatureEl(nodes')
         /\ DOMAIN uuids' = DOMAIN uuids \cup { CurPath }
ScanCounts ==
  pc \in { "save_uuids", "save_wxs", "done" } =>
    /\ Cardinality(ScannedComponents(nodes)) = Cardinality(RetainedFiles)
    /\ Cardinality(ElementsOf(nodes, "File")) = Cardinality(RetainedFiles)
    /\ Cardinality(ElementsOf(nodes, "ComponentRef")) = Cardinality(RetainedFiles) + 1
    /\ \A g \in 1..Len(config) :
         \A f \in WalkedFiles(g) :
           Cardinality({ i \in ElementsOf(nodes, "File") :
                           nodes[i].attrs.Source = PathJoin(f.parent, f.filename) })
           = IF Retained(g, f) THEN 1 ELSE 0
MenuChildren(ns) == { i \in 1..Len(ns) : ns[i].parent = MenuComponentEl(ns) }
ShortcutOfOneFile ==
  (pc = "scan" /\ todo # << >>) =>
    IF /\ ~ IgnorePath(CurGroup.ignore, CurPath)
       /\ CurPath \in DOMAIN CurGroup.shortcuts
    THEN /\ KeepsElements
         /\ Cardinality(AddedElements("Shortcut")) = 1
         /\ \A s \in AddedElements("Shortcut") :
              /\ nodes'[s].parent = MenuComponentEl(nodes')
              /\ nodes'[s].attrs.Target = << "[#", FileId(CurPath), "]" >>
              /\ \E f \in AddedElements("File") :
                   /\ nodes'[f].attrs.Id = FileId(CurPath)
                   /\ nodes'[f].attrs.Source = CurLocalPath
              /\ \A k \in DOMAIN CurGroup.shortcuts[CurPath] :
                   nodes'[s].attrs[k] = CurGroup.shortcuts[CurPath][k]
              /\ DOMAIN nodes'[s].attrs
                   = { "Target" } \cup DOMAIN CurGroup.shortcuts[CurPath]
    ELSE /\ AddedElements("Shortcut") = {}
         /\ MenuChildren(nodes') = MenuChildren(nodes)
ShortcutsUnderMenu ==
  \A s \in ElementsOf(nodes, "Shortcut") : nodes[s].parent = MenuComponentEl(nodes)
ShortcutAttachment == []ShortcutsUnderMenu /\ [][ShortcutOfOneFile]_vars

\* C9's case: a finished scan that attached a Shortcut to a/f and none to the
\* other file it retained.
ShortcutWitness ==
  /\ pc = "done"
  /\ Cardinality(ElementsOf(nodes, "Shortcut")) = 1
  /\ Cardinality(ElementsOf(nodes, "File")) >= 2
  /\ \E s \in ElementsOf(nodes, "Shortcut") :
       nodes[s].attrs.Target = << "[#", FileId(<< "a", "/", "f" >>), "]" >>

\* C5 (idempotence of a full run): when a run that ended with save() is
\* followed by another on the same file system, the second run mints nothing
\* (its registry is the one the first run held), and once it has saved, the
\* registry file and the manifest file are what the first run left.
Idempotence ==
  (run >= 2 /\ prev.pc = "done") =>
    /\ pc \notin { "boot", "skeleton" } => uuids = prev.uuids
    /\ "uuid.json" \in wrote => regfile = prev.regfile
    /\ pc = "done" => wxsfile = prev.wxsfile /\ regfile = prev.regfile

\* C5's case: two full runs in a row over a tree with several files.
IdempotenceWitness ==
  /\ run = 2
  /\ prev.pc = "done"
  /\ pc = "done"
  /\ Cardinality(ElementsOf(nodes, "File")) >= 3
  /\ Cardinality(DOMAIN uuids) >= 3
  /\ wxsfile.state = "written"
  /\ Len(wxsfile.text) = Len(nodes)

UniqueIdentifiers ==
  /\ \A a, b \in 1..Len(nodes) :
       (a # b /\ nodes[a].tag = nodes[b].tag
          /\ nodes[a].tag \in { "Component", "File", "Directory" })
       => /\ nodes[a].attrs.Id # nodes[b].attrs.Id
          /\ nodes[a].tag = "Component" => nodes[a].attrs.Guid # nodes[b].attrs.Guid
  /\ \A p \in DOMAIN uuids \cup DOMAIN dirs :
       /\ DirectoryId(p) # ComponentId(p)
       /\ DirectoryId(p) # FileId(p)
       /\ ComponentId(p) # FileId(p)

\* C6 (no partial-success output): a run that has ended wrote both the registry
\* and the manifest in full, or neither.
NoPartialOutput ==
  pc \in { "done", "aborted" } => wrote \in { {}, { "uuid.json", "wxs" } }

\* C7 (missing registry file): a run that finds no registry file goes on, with
\* an empty registry.
MissingRegistryStartsEmpty ==
  (regfile.state = "missing" /\ pc # "boot") => (pc # "aborted" /\ err = "")

\* C8 (file system errors abort the run): when the root of a group, or a
\* directory under it, cannot be read, the run writes neither output.
IsUnder(d, r) ==
  /\ Len(d) >= Len(r)
  /\ SubSeq(d, 1, Len(r)) = r
  /\ Len(d) = Len(r) \/ d[Len(r) + 1] = SEP
ScanMeetsUnreadable ==
  \E g \in 1..Len(config) : \E d \in unreadable : IsUnder(d, AbsPath(config[g].root))
UnreadableAborts ==
  ScanMeetsUnreadable => (wrote = {} /\ pc # "done")

\* C10 (masked path): the masked path of every file the scan meets, and of the
\* directory it is in, is the path relative to the parent of the group's root:
\* it starts with the last segment of the root.
RelativeToParent(root, path) ==
  LET segs == Segments(path)
      n == Len(Segments(root))
  IN  JoinSegments(SubSeq(segs, n, Len(segs)))
MaskedPathIsRelative ==
  (pc = "scan" /\ todo # << >>) =>
    /\ CurPath = RelativeToParent(CurGroup.root, CurLocalPath)
    /\ CurParentPath = RelativeToParent(CurGroup.root, Head(todo).parent)

====
